---- MODULE Spec2Model ----
(***************************************************************************)
(* Model of cpu.py: the guarded byte memory (class Memory) and the virtual *)
(* CPU (class CPU) with its fetch/decode/execute loop and its ten          *)
(* instruction handlers.                                                   *)
(***************************************************************************)
EXTENDS Integers, Sequences, FiniteSets, TLC

VARIABLES
  ram,      \* CPU.ram           : Memory(256)
  reg,      \* CPU.gp_registers  : Memory(8), R7 = SP
  PC,       \* CPU.PC
  IR,       \* CPU.IR
  FL,       \* CPU.FL
  out,      \* lines written to standard output, oldest first
  err,      \* exception that left load()/run(), or NoError
  phase,    \* position of the driver: "new", "loaded", "running", "halted", "failed"
  prev,     \* snapshot of the machine taken at the start of the last cycle
  cycles,   \* cycles executed by the current run() call
  runs,     \* number of run() calls made so far
  jumped,   \* some pass of the current run() call fetched an opcode with bit 4 set
  mem,      \* a stand-alone Memory object exercised through its methods
  last      \* the last method call made on mem and its outcome

vars ==
  <<ram, reg, PC, IR, FL, out, err, phase, prev, cycles, runs, jumped, mem, last>>

cpuVars == <<ram, reg, PC, IR, FL, out, err, phase, prev, cycles, runs, jumped>>

memVars == <<mem, last>>

---------------------------------------------------------------------------
(* Bounds of the model *)

MaxCycles == 260

MaxRuns == 2

MaxSize == 3

---------------------------------------------------------------------------
(* Exceptions *)

NoError == "none"

OutOfBounds == "ReferenceError"

InvalidByteValue == "TypeError"

---------------------------------------------------------------------------
(* class Memory *)

\* Memory.__init__ / Memory.clear: size cells, all 0
Memory(size) ==
  [size |-> size, internal_memory |-> [i \in 0..(size - 1) |-> 0]]

\* the cell at index i of the backing list
Cell(m, i) == m.internal_memory[i]

\* clear that resets every cell but the last one
clear_but_last(m) ==
  [m EXCEPT !.internal_memory =
     [i \in 0..(m.size - 1) |-> IF i = m.size - 1 THEN m.internal_memory[i] ELSE 0]]

clear(m) ==
  [m EXCEPT !.internal_memory = [i \in 0..(m.size - 1) |-> 0]]

\* read_byte indexing one cell too low (Python's index -1 is the last cell)
read_byte_off_by_one(m, address) ==
  IF address < 0 \/ address > m.size - 1
    THEN [err |-> OutOfBounds, val |-> 0]
    ELSE [err |-> NoError, val |-> m.internal_memory[(address + m.size - 1) % m.size]]

\* read_byte that wraps the address into the Memory instead of refusing it
read_byte_wraps(m, address) ==
  IF m.size = 0
    THEN [err |-> OutOfBounds, val |-> 0]
    ELSE [err |-> NoError, val |-> m.internal_memory[address % m.size]]

\* read_byte: result is [err, val]
read_byte(m, address) ==
  IF address < 0 \/ address > m.size - 1
    THEN [err |-> OutOfBounds, val |-> 0]
    ELSE [err |-> NoError, val |-> m.internal_memory[address]]

\* write_byte that assigns the cell before it checks the range
write_byte_stores_first(m, address, data) ==
  IF address < 0 \/ address > m.size - 1
    THEN [err |-> OutOfBounds, mem |-> m]
    ELSE LET real_byte == data
             stored == [m EXCEPT !.internal_memory[address] = real_byte]
         IN  IF real_byte > 255 THEN [err |-> InvalidByteValue, mem |-> stored]
             ELSE IF real_byte < 0 THEN [err |-> InvalidByteValue, mem |-> stored]
             ELSE [err |-> NoError, mem |-> stored]

\* write_byte without the "Integer underflow" check
write_byte_no_underflow_check(m, address, data) ==
  IF address < 0 \/ address > m.size - 1
    THEN [err |-> OutOfBounds, mem |-> m]
    ELSE LET real_byte == data IN
         IF real_byte > 255 THEN [err |-> InvalidByteValue, mem |-> m]
         ELSE [err |-> NoError,
               mem |-> [m EXCEPT !.internal_memory[address] = real_byte]]

\* write_byte that looks at the data before it looks at the address
write_byte_checks_data_first(m, address, data) ==
  LET real_byte == data IN
  IF real_byte > 255 THEN [err |-> InvalidByteValue, mem |-> m]
  ELSE IF real_byte < 0 THEN [err |-> InvalidByteValue, mem |-> m]
  ELSE IF address < 0 \/ address > m.size - 1
    THEN [err |-> OutOfBounds, mem |-> m]
  ELSE [err |-> NoError,
        mem |-> [m EXCEPT !.internal_memory[address] = real_byte]]

\* write_byte without the "Integer overflow" check
write_byte_no_overflow_check(m, address, data) ==
  IF address < 0 \/ address > m.size - 1
    THEN [err |-> OutOfBounds, mem |-> m]
    ELSE LET real_byte == data IN
         IF real_byte < 0 THEN [err |-> InvalidByteValue, mem |-> m]
         ELSE [err |-> NoError,
               mem |-> [m EXCEPT !.internal_memory[address] = real_byte]]

\* write_byte: result is [err, mem]; data is an integer, so int(data) = data
write_byte(m, address, data) ==
  IF address < 0 \/ address > m.size - 1
    THEN [err |-> OutOfBounds, mem |-> m]
    ELSE LET real_byte == data IN
         IF real_byte > 255 THEN [err |-> InvalidByteValue, mem |-> m]
         ELSE IF real_byte < 0 THEN [err |-> InvalidByteValue, mem |-> m]
         ELSE [err |-> NoError,
               mem |-> [m EXCEPT !.internal_memory[address] = real_byte]]

---------------------------------------------------------------------------
(* Python's bitwise operators on non-negative integers *)

RECURSIVE BitAnd(_, _)
BitAnd(a, b) ==
  IF a = 0 \/ b = 0 THEN 0
  ELSE (a % 2) * (b % 2) + 2 * BitAnd(a \div 2, b \div 2)

\* a | mask
BitOr(a, mask) == a + mask - BitAnd(a, mask)

\* a & ~mask
BitClear(a, mask) == a - BitAnd(a, mask)

---------------------------------------------------------------------------
(* class CPU: constants set by __init__ *)

MAX_MEM == 256

NUM_REGISTERS == 8

SP == 7

SP_RESET == 244           \* 0xF4

OP_HLT == 1               \* 0x01
OP_PUSH == 69             \* 0x45
OP_POP == 70              \* 0x46
OP_PRN == 71              \* 0x47
OP_JMP == 84              \* 0x54
OP_JNE == 85              \* 0x55
OP_JEQ == 86              \* 0x56
OP_LDI == 130             \* 0x82
OP_MUL == 162             \* 0xA2
OP_CMP == 167             \* 0xA7

FLAG_RUNNING == 128       \* 0b10000000
FLAG_LESS == 4            \* 0b00000100
FLAG_GREATER == 2         \* 0b00000010
FLAG_EQUAL == 1           \* 0b00000001

\* opcode -> name of the bound method that implements it
dispatch_table ==
  (OP_HLT :> "HLT") @@ (OP_PRN :> "PRN") @@ (OP_LDI :> "LDI") @@
  (OP_PUSH :> "PUSH") @@ (OP_POP :> "POP") @@ (OP_MUL :> "MUL") @@
  (OP_CMP :> "CMP") @@ (OP_JMP :> "JMP") @@ (OP_JEQ :> "JEQ") @@
  (OP_JNE :> "JNE")

---------------------------------------------------------------------------
(* The handlers work on a machine record s = [ram, reg, PC, IR, FL, out,   *)
(* err]; s.err # NoError means an exception is propagating, and the fields *)
(* hold whatever had been assigned before it was raised.                   *)

Raise(s, e) == [s EXCEPT !.err = e]

ram_read(s, address) == read_byte(s.ram, address)

ram_write(s, address, value) ==
  LET w == write_byte(s.ram, address, value)
  IN  [s EXCEPT !.ram = w.mem, !.err = w.err]

gp_registers_read_byte(s, reg_num) == read_byte(s.reg, reg_num)

gp_registers_write_byte(s, reg_num, value) ==
  LET w == write_byte(s.reg, reg_num, value)
  IN  [s EXCEPT !.reg = w.mem, !.err = w.err]

get_SP(s) == read_byte(s.reg, SP).val

set_SP(s, value) == gp_registers_write_byte(s, SP, value)

print(s, line) == [s EXCEPT !.out = Append(s.out, line)]

HLT(s) == [s EXCEPT !.FL = BitClear(s.FL, FLAG_RUNNING)]

LDI(s) ==
  LET reg_num == ram_read(s, s.PC + 1) IN
  IF reg_num.err # NoError THEN Raise(s, reg_num.err) ELSE
  LET reg_val == ram_read(s, s.PC + 2) IN
  IF reg_val.err # NoError THEN Raise(s, reg_val.err) ELSE
  gp_registers_write_byte(s, reg_num.val, reg_val.val)

PRN(s) ==
  LET reg_num == ram_read(s, s.PC + 1) IN
  IF reg_num.err # NoError THEN Raise(s, reg_num.err) ELSE
  LET reg_val == gp_registers_read_byte(s, reg_num.val) IN
  IF reg_val.err # NoError THEN Raise(s, reg_val.err) ELSE
  print(s, <<"value", reg_val.val>>)

\* PUSH that restores SP when it fails after the decrement
PUSH_rolls_back(s) ==
  LET s1 == set_SP(s, get_SP(s) - 1) IN
  IF s1.err # NoError THEN s1 ELSE
  LET reg_num == ram_read(s1, s1.PC + 1) IN
  IF reg_num.err # NoError THEN Raise(s, reg_num.err) ELSE
  LET data == gp_registers_read_byte(s1, reg_num.val) IN
  IF data.err # NoError THEN Raise(s, data.err) ELSE
  ram_write(s1, get_SP(s1), data.val)

PUSH(s) ==
  LET s1 == set_SP(s, get_SP(s) - 1) IN
  IF s1.err # NoError THEN s1 ELSE
  LET reg_num == ram_read(s1, s1.PC + 1) IN
  IF reg_num.err # NoError THEN Raise(s1, reg_num.err) ELSE
  LET data == gp_registers_read_byte(s1, reg_num.val) IN
  IF data.err # NoError THEN Raise(s1, data.err) ELSE
  ram_write(s1, get_SP(s1), data.val)

\* POP that forgets to increment SP
POP_keeps_SP(s) ==
  LET reg_num == ram_read(s, s.PC + 1) IN
  IF reg_num.err # NoError THEN Raise(s, reg_num.err) ELSE
  LET data == ram_read(s, get_SP(s)) IN
  IF data.err # NoError THEN Raise(s, data.err) ELSE
  gp_registers_write_byte(s, reg_num.val, data.val)

POP(s) ==
  LET reg_num == ram_read(s, s.PC + 1) IN
  IF reg_num.err # NoError THEN Raise(s, reg_num.err) ELSE
  LET data == ram_read(s, get_SP(s)) IN
  IF data.err # NoError THEN Raise(s, data.err) ELSE
  LET s1 == gp_registers_write_byte(s, reg_num.val, data.val) IN
  IF s1.err # NoError THEN s1 ELSE
  set_SP(s1, get_SP(s1) + 1)

JMP(s) ==
  LET reg_num == ram_read(s, s.PC + 1) IN
  IF reg_num.err # NoError THEN Raise(s, reg_num.err) ELSE
  LET target == gp_registers_read_byte(s, reg_num.val) IN
  IF target.err # NoError THEN Raise(s, target.err) ELSE
  [s EXCEPT !.PC = target.val]

\* JEQ that clears EQUAL once it has jumped on it
JEQ_consumes_flag(s) ==
  IF BitAnd(s.FL, FLAG_EQUAL) = FLAG_EQUAL
    THEN JMP([s EXCEPT !.FL = BitClear(s.FL, FLAG_EQUAL)])
    ELSE [s EXCEPT !.PC = s.PC + 2]

JEQ(s) ==
  IF BitAnd(s.FL, FLAG_EQUAL) = FLAG_EQUAL
    THEN JMP(s)
    ELSE [s EXCEPT !.PC = s.PC + 2]

\* JNE testing the flag in JEQ's sense
JNE_same_sense(s) ==
  IF BitAnd(s.FL, FLAG_EQUAL) = FLAG_EQUAL
    THEN JMP(s)
    ELSE [s EXCEPT !.PC = s.PC + 2]

JNE(s) ==
  IF BitAnd(s.FL, FLAG_EQUAL) = 0
    THEN JMP(s)
    ELSE [s EXCEPT !.PC = s.PC + 2]

\* MUL that adds
MUL_adds(s, reg_a, reg_b) ==
  LET reg_a_val == gp_registers_read_byte(s, reg_a) IN
  IF reg_a_val.err # NoError THEN Raise(s, reg_a_val.err) ELSE
  LET reg_b_val == gp_registers_read_byte(s, reg_b) IN
  IF reg_b_val.err # NoError THEN Raise(s, reg_b_val.err) ELSE
  LET result == reg_a_val.val + reg_b_val.val IN
  gp_registers_write_byte(s, reg_a, result)

\* MUL that truncates its result to 8 bits
MUL_wraps(s, reg_a, reg_b) ==
  LET reg_a_val == gp_registers_read_byte(s, reg_a) IN
  IF reg_a_val.err # NoError THEN Raise(s, reg_a_val.err) ELSE
  LET reg_b_val == gp_registers_read_byte(s, reg_b) IN
  IF reg_b_val.err # NoError THEN Raise(s, reg_b_val.err) ELSE
  LET result == (reg_a_val.val * reg_b_val.val) % 256 IN
  gp_registers_write_byte(s, reg_a, result)

MUL(s, reg_a, reg_b) ==
  LET reg_a_val == gp_registers_read_byte(s, reg_a) IN
  IF reg_a_val.err # NoError THEN Raise(s, reg_a_val.err) ELSE
  LET reg_b_val == gp_registers_read_byte(s, reg_b) IN
  IF reg_b_val.err # NoError THEN Raise(s, reg_b_val.err) ELSE
  LET result == reg_a_val.val * reg_b_val.val IN
  gp_registers_write_byte(s, reg_a, result)

\* CMP that sets the flag of its outcome and never clears the other two
CMP_accumulates(s, reg_a, reg_b) ==
  LET reg_a_val == gp_registers_read_byte(s, reg_a) IN
  IF reg_a_val.err # NoError THEN Raise(s, reg_a_val.err) ELSE
  LET reg_b_val == gp_registers_read_byte(s, reg_b) IN
  IF reg_b_val.err # NoError THEN Raise(s, reg_b_val.err) ELSE
  LET a == reg_a_val.val
      b == reg_b_val.val
      f1 == IF a = b THEN BitOr(s.FL, FLAG_EQUAL) ELSE s.FL
      f2 == IF a < b THEN BitOr(f1, FLAG_LESS) ELSE f1
      f3 == IF a > b THEN BitOr(f2, FLAG_GREATER) ELSE f2
  IN  [s EXCEPT !.FL = f3]

\* CMP that assigns FL the flag of its outcome instead of masking it in
CMP_overwrites_FL(s, reg_a, reg_b) ==
  LET reg_a_val == gp_registers_read_byte(s, reg_a) IN
  IF reg_a_val.err # NoError THEN Raise(s, reg_a_val.err) ELSE
  LET reg_b_val == gp_registers_read_byte(s, reg_b) IN
  IF reg_b_val.err # NoError THEN Raise(s, reg_b_val.err) ELSE
  LET a == reg_a_val.val
      b == reg_b_val.val
  IN  [s EXCEPT !.FL = IF a = b THEN FLAG_EQUAL
                        ELSE IF a < b THEN FLAG_LESS
                        ELSE FLAG_GREATER]

\* CMP that never clears EQUAL
CMP_keeps_EQUAL(s, reg_a, reg_b) ==
  LET reg_a_val == gp_registers_read_byte(s, reg_a) IN
  IF reg_a_val.err # NoError THEN Raise(s, reg_a_val.err) ELSE
  LET reg_b_val == gp_registers_read_byte(s, reg_b) IN
  IF reg_b_val.err # NoError THEN Raise(s, reg_b_val.err) ELSE
  LET a == reg_a_val.val
      b == reg_b_val.val
      f1 == IF a = b THEN BitOr(s.FL, FLAG_EQUAL) ELSE s.FL
      f2 == IF a < b THEN BitOr(f1, FLAG_LESS) ELSE BitClear(f1, FLAG_LESS)
      f3 == IF a > b THEN BitOr(f2, FLAG_GREATER) ELSE BitClear(f2, FLAG_GREATER)
  IN  [s EXCEPT !.FL = f3]

CMP(s, reg_a, reg_b) ==
  LET reg_a_val == gp_registers_read_byte(s, reg_a) IN
  IF reg_a_val.err # NoError THEN Raise(s, reg_a_val.err) ELSE
  LET reg_b_val == gp_registers_read_byte(s, reg_b) IN
  IF reg_b_val.err # NoError THEN Raise(s, reg_b_val.err) ELSE
  LET a == reg_a_val.val
      b == reg_b_val.val
      f1 == IF a = b THEN BitOr(s.FL, FLAG_EQUAL) ELSE BitClear(s.FL, FLAG_EQUAL)
      f2 == IF a < b THEN BitOr(f1, FLAG_LESS) ELSE BitClear(f1, FLAG_LESS)
      f3 == IF a > b THEN BitOr(f2, FLAG_GREATER) ELSE BitClear(f2, FLAG_GREATER)
  IN  [s EXCEPT !.FL = f3]

\* self.dispatch_table[IR]() : a bound method called with no argument
call0(s, name) ==
  CASE name = "HLT" -> HLT(s)
    [] name = "PRN" -> PRN(s)
    [] name = "LDI" -> LDI(s)
    [] name = "PUSH" -> PUSH(s)
    [] name = "POP" -> POP(s)
    [] name = "JMP" -> JMP(s)
    [] name = "JEQ" -> JEQ(s)
    [] name = "JNE" -> JNE(s)
    [] OTHER -> Raise(s, "TypeError")    \* MUL(), CMP(): missing arguments

\* self.dispatch_table[IR](reg_a, reg_b) : called with two arguments
call2(s, name, reg_a, reg_b) ==
  CASE name = "MUL" -> MUL(s, reg_a, reg_b)
    [] name = "CMP" -> CMP(s, reg_a, reg_b)
    [] OTHER -> Raise(s, "TypeError")    \* too many arguments

alu(s, op, reg_a, reg_b) ==
  IF s.IR \in DOMAIN dispatch_table
    THEN call2(s, dispatch_table[s.IR], reg_a, reg_b)
    ELSE HLT(print(s, <<"Unknown ALU instruction", s.IR, s.PC>>))

\* what each handler does with its arguments: the operand bytes it reads
\* (from memory after PC, or as the two register numbers handed over by
\* alu()), whether it is called with two register numbers, and whether it
\* assigns PC
handler_shape ==
  OP_HLT :> [operands |-> 0, two_registers |-> FALSE, assigns_PC |-> FALSE] @@
  OP_PUSH :> [operands |-> 1, two_registers |-> FALSE, assigns_PC |-> FALSE] @@
  OP_POP :> [operands |-> 1, two_registers |-> FALSE, assigns_PC |-> FALSE] @@
  OP_PRN :> [operands |-> 1, two_registers |-> FALSE, assigns_PC |-> FALSE] @@
  OP_JMP :> [operands |-> 1, two_registers |-> FALSE, assigns_PC |-> TRUE] @@
  OP_JNE :> [operands |-> 1, two_registers |-> FALSE, assigns_PC |-> TRUE] @@
  OP_JEQ :> [operands |-> 1, two_registers |-> FALSE, assigns_PC |-> TRUE] @@
  OP_LDI :> [operands |-> 2, two_registers |-> FALSE, assigns_PC |-> FALSE] @@
  OP_MUL :> [operands |-> 2, two_registers |-> TRUE, assigns_PC |-> FALSE] @@
  OP_CMP :> [operands |-> 2, two_registers |-> TRUE, assigns_PC |-> FALSE]

\* the body of the loop with the ALU bit and the sets-PC bit taken from
\* other places of the opcode
run_body_decoding(s, alu_mask, pc_mask) ==
  LET fetched == ram_read(s, s.PC) IN
  IF fetched.err # NoError THEN Raise(s, fetched.err) ELSE
  LET s0 == [s EXCEPT !.IR = fetched.val]
      num_ops == BitAnd(s0.IR, 192) \div 64
      use_alu == BitAnd(s0.IR, alu_mask)
      sets_pc == BitAnd(s0.IR, pc_mask)
      s1 == IF use_alu # 0
              THEN LET reg_a == ram_read(s0, s0.PC + 1) IN
                   IF reg_a.err # NoError THEN Raise(s0, reg_a.err) ELSE
                   LET reg_b == ram_read(s0, s0.PC + 2) IN
                   IF reg_b.err # NoError THEN Raise(s0, reg_b.err) ELSE
                   alu(s0, s0.IR, reg_a.val, reg_b.val)
              ELSE IF s0.IR \in DOMAIN dispatch_table
                     THEN call0(s0, dispatch_table[s0.IR])
                     ELSE HLT(print(s0, <<"Unknown instruction", s0.IR, s0.PC>>))
  IN  IF s1.err # NoError THEN s1
      ELSE IF sets_pc = 0 THEN [s1 EXCEPT !.PC = s1.PC + (1 + num_ops)]
      ELSE s1

\* the loop advancing PC after every instruction, jumps included
run_body_always_advances(s) == run_body_decoding(s, 32, 0)

\* the loop taking the ALU path on bit 4 instead of bit 5
run_body_alu_on_bit_4(s) == run_body_decoding(s, 16, 16)

\* the loop leaving PC to the handler of every nonzero opcode
run_body_never_advances(s) == run_body_decoding(s, 32, 255)

\* the body of run()'s while loop
run_body(s) ==
  LET fetched == ram_read(s, s.PC) IN
  IF fetched.err # NoError THEN Raise(s, fetched.err) ELSE
  LET s0 == [s EXCEPT !.IR = fetched.val]
      num_ops == BitAnd(s0.IR, 192) \div 64
      use_alu == BitAnd(s0.IR, 32) \div 32
      sets_pc == BitAnd(s0.IR, 16) \div 16
      insr_id == BitAnd(s0.IR, 15)
      s1 == IF use_alu # 0
              THEN LET reg_a == ram_read(s0, s0.PC + 1) IN
                   IF reg_a.err # NoError THEN Raise(s0, reg_a.err) ELSE
                   LET reg_b == ram_read(s0, s0.PC + 2) IN
                   IF reg_b.err # NoError THEN Raise(s0, reg_b.err) ELSE
                   alu(s0, s0.IR, reg_a.val, reg_b.val)
              ELSE IF s0.IR \in DOMAIN dispatch_table
                     THEN call0(s0, dispatch_table[s0.IR])
                     ELSE HLT(print(s0, <<"Unknown instruction", s0.IR, s0.PC>>))
  IN  IF s1.err # NoError THEN s1
      ELSE IF sets_pc = 0 THEN [s1 EXCEPT !.PC = s1.PC + (1 + num_ops)]
      ELSE s1

\* load(): clear the ram, then write the parsed values from address 0 up,
\* one write_byte each, until one of them raises.  Whether the write at an
\* address raises depends on the address and the value alone, so the loop
\* stops at the least address whose write raises.
load(m, values) ==
  LET c == clear(m)
      write(address) == write_byte(c, address, values[address + 1])
      raising == {address \in 0..(Len(values) - 1) : write(address).err # NoError}
      stop == IF raising = {} THEN Len(values)
              ELSE CHOOSE address \in raising : \A other \in raising : address <= other
  IN  [err |-> IF raising = {} THEN NoError ELSE write(stop).err,
       mem |-> [c EXCEPT !.internal_memory =
                  [i \in 0..(c.size - 1) |->
                     IF i < stop THEN Cell(write(i).mem, i) ELSE 0]]]

---------------------------------------------------------------------------
(* Programs handed to load(): the values parsed from the lines of a file.  *)

Zeros(n) == [i \in 1..n |-> 0]

\* prefix at address 0, tail at address at, zeros between
Image(prefix, at, tail) == prefix \o Zeros(at - Len(prefix)) \o tail

RegSamples == {0, 1, 7, 8}

ValSamples == {0, 1, 8, 9, 16, 255}

\* LDI a,x; LDI b,y; MUL a,b; PRN a; HLT
MulPrograms ==
  { <<OP_LDI, a, x, OP_LDI, b, y, OP_MUL, a, b, OP_PRN, a, OP_HLT>> :
      <<a, b, x, y>> \in RegSamples \X RegSamples \X ValSamples \X ValSamples }

\* LDI 2,t; LDI 0,x; LDI 1,y; CMP 0,1; CMP a,b; <jump> c; PRN 0; HLT
CmpPrograms ==
  { <<OP_LDI, 2, t, OP_LDI, 0, x, OP_LDI, 1, y, OP_CMP, 0, 1, OP_CMP, a, b,
      j, c, OP_PRN, 0, OP_HLT>> :
      <<t, x, y, a, b, j, c>> \in
        {15, 19, 255} \X {0, 1, 255} \X {0, 1, 255} \X {0, 1, 8} \X {0, 1, 7}
          \X {OP_JMP, OP_JEQ, OP_JNE} \X {2, 8} }

\* LDI 7,s; LDI a,v; PUSH a; POP b; HLT     (PUSH at 6, POP at 8)
StackPrograms ==
  { <<OP_LDI, SP, s, OP_LDI, a, v, OP_PUSH, a, OP_POP, b, OP_HLT>> :
      <<s, a, b, v>> \in
        {0, 1, 7, 8, 9, 10, 11, SP_RESET, 255} \X {0, 6, 7, 8} \X {1, 6, 7, 8}
          \X {0, 42, 255} }
  \cup
  { <<OP_LDI, a, v, OP_PUSH, a, OP_POP, b, OP_HLT>> :
      <<a, b, v>> \in {0, 6} \X {0, 1, 7} \X {0, 42, 255} }
  \cup
  { <<OP_LDI, SP, s, OP_POP, b, OP_HLT>> : <<s, b>> \in {0, 254, 255} \X {0, 7, 8} }

\* a sample of the 246 bytes that are not keys of the dispatch table
UnmappedSamples == {0, 16, 32, 48, 160, 163, 192, 255}

\* LDI 0,t; JMP 0; ...; one instruction at address t
TailPrograms ==
  { Image(<<OP_LDI, 0, t, OP_JMP, 0>>, t, tail) :
      <<t, tail>> \in {8, 252, 253, 254} \X
        ({ <<op>> : op \in UnmappedSamples \cup {OP_HLT} } \cup
         { <<op, 0>> : op \in UnmappedSamples \cup
                               {OP_PUSH, OP_POP, OP_PRN, OP_JMP, OP_JEQ, OP_JNE} }) }
  \cup
  { Image(<<OP_LDI, 0, 255, OP_JMP, 0>>, 255, <<op>>) :
      op \in UnmappedSamples \cup DOMAIN dispatch_table }

\* files load() cannot take: a value that is no byte, more values than cells
BadPrograms ==
  { <<OP_LDI, 0, 256, OP_HLT>>, <<OP_LDI, 0, -1, OP_HLT>>,
    Image(<<OP_HLT>>, MAX_MEM, <<OP_HLT>>) }

\* LDI 7,s; then one instruction on registers r, r2 that no LDI has touched
RegisterPrograms ==
  { <<OP_LDI, SP, s, op, r, r2, OP_HLT>> :
      <<s, op, r, r2>> \in
        {0, 1, SP_RESET} \X (DOMAIN dispatch_table \ {OP_HLT}) \X {0, 8, 255}
          \X {0, 8} }

\* LDI 0,t; JMP 0; ...; a two-operand instruction that ends at or past 255
EdgePrograms ==
  { Image(<<OP_LDI, 0, t, OP_JMP, 0>>, t, SubSeq(<<op, 0, 0>>, 1, MAX_MEM - t)) :
      <<t, op>> \in {253, 254} \X {OP_LDI, OP_MUL, OP_CMP, 128, 160, 192} }

\* LDI 7,255; POP b; HLT; ...; the value v in the cell 255 that SP points at
PopValuePrograms ==
  { Image(<<OP_LDI, SP, 255, OP_POP, b, OP_HLT>>, 255, <<v>>) :
      <<b, v>> \in {0, 6, 7} \X {42, 255} }

\* memory filled with one instruction repeated, with or without a final HLT
LongPrograms ==
  { [i \in 1..MAX_MEM |-> IF i % 2 = 1 THEN op ELSE 0] : op \in {OP_PRN, OP_POP} }
  \cup
  { [i \in 1..MAX_MEM |-> IF i = MAX_MEM - 1 THEN OP_HLT
                          ELSE IF i % 2 = 1 THEN OP_PRN ELSE 0] }
  \cup
  { [i \in 1..MAX_MEM |-> IF i % 3 = 1 THEN OP_LDI ELSE 1] }

\* LDI 0,x; CMP 0,1; HLT; CMP 1,0; HLT: a second run() call goes on after
\* the first HLT with the flags the first call left
RerunPrograms ==
  { <<OP_LDI, 0, x, OP_CMP, 0, 1, OP_HLT, OP_CMP, 1, 0, OP_HLT>> : x \in {0, 1} }

Programs ==
  MulPrograms \cup CmpPrograms \cup StackPrograms \cup TailPrograms \cup BadPrograms
    \cup RegisterPrograms \cup EdgePrograms \cup PopValuePrograms \cup LongPrograms
    \cup RerunPrograms

---------------------------------------------------------------------------
(* The machine as a state machine *)

Machine ==
  [ram |-> ram, reg |-> reg, PC |-> PC, IR |-> IR, FL |-> FL, out |-> out,
   err |-> err]

IsRunning(fl) == BitAnd(fl, FLAG_RUNNING) = FLAG_RUNNING

\* CPU.__init__
InitCPU ==
  /\ ram = Memory(MAX_MEM)
  /\ reg = write_byte(Memory(NUM_REGISTERS), SP, SP_RESET).mem
  /\ PC = 0
  /\ IR = 0
  /\ FL = 0
  /\ out = << >>
  /\ err = NoError
  /\ phase = "new"
  /\ prev = Machine
  /\ cycles = 0
  /\ runs = 0
  /\ jumped = FALSE

Init ==
  /\ InitCPU
  /\ mem = Memory(0)
  /\ last = [op |-> "__init__", address |-> 0, data |-> 0, err |-> NoError, val |-> 0]

\* cpu.load(file)
Load ==
  /\ phase = "new"
  /\ \E values \in Programs :
       LET l == load(ram, values) IN
         /\ ram' = l.mem
         /\ err' = l.err
         /\ phase' = IF l.err # NoError THEN "failed" ELSE "loaded"
  /\ UNCHANGED <<reg, PC, IR, FL, out, prev, cycles, runs, jumped, mem, last>>

\* entry of cpu.run(): CPU ON
Run ==
  /\ phase \in {"loaded", "halted", "failed"}
  /\ runs < MaxRuns
  /\ FL' = BitOr(FL, FLAG_RUNNING)
  /\ err' = NoError
  /\ phase' = "running"
  /\ cycles' = 0
  /\ runs' = runs + 1
  /\ jumped' = FALSE
  /\ UNCHANGED <<ram, reg, PC, IR, out, prev, mem, last>>

\* one pass of run()'s loop, up to the next test of the loop condition
Cycle ==
  /\ phase = "running"
  /\ cycles < MaxCycles
  /\ LET s == run_body(Machine) IN
       /\ ram' = s.ram
       /\ reg' = s.reg
       /\ PC' = s.PC
       /\ IR' = s.IR
       /\ FL' = s.FL
       /\ out' = s.out
       /\ err' = s.err
       /\ phase' = IF s.err # NoError THEN "failed"
                   ELSE IF IsRunning(s.FL) THEN "running"
                   ELSE "halted"
  /\ prev' = Machine
  /\ cycles' = cycles + 1
  /\ jumped' = (jumped \/ (PC \in 0..(MAX_MEM - 1) /\ BitAnd(Cell(ram, PC), 16) # 0))
  /\ UNCHANGED <<runs, mem, last>>

Next == Load \/ Run \/ Cycle

Spec == Init /\ [][Next]_vars

---------------------------------------------------------------------------
(* A Memory object on its own, driven through its three methods *)

\* arguments tried: every address from -1 to size, bytes and non-bytes
DataSamples == {-1, 0, 1, 255, 256}

AddressSamples == -1..MaxSize

InitMem ==
  /\ InitCPU
  /\ \E size \in 0..MaxSize : mem = Memory(size)
  /\ last = [op |-> "__init__", address |-> 0, data |-> 0, err |-> NoError, val |-> 0]

MemWrite ==
  /\ \E address \in AddressSamples, data \in DataSamples :
       LET w == write_byte(mem, address, data) IN
         /\ mem' = w.mem
         /\ last' = [op |-> "write_byte", address |-> address, data |-> data,
                     err |-> w.err, val |-> 0]
  /\ UNCHANGED cpuVars

MemRead ==
  /\ \E address \in AddressSamples :
       LET r == read_byte(mem, address) IN
         last' = [op |-> "read_byte", address |-> address, data |-> 0,
                  err |-> r.err, val |-> r.val]
  /\ UNCHANGED <<mem, cpuVars>>

MemClear ==
  /\ mem' = clear(mem)
  /\ last' = [op |-> "clear", address |-> 0, data |-> 0, err |-> NoError, val |-> 0]
  /\ UNCHANGED cpuVars

NextMem == MemWrite \/ MemRead \/ MemClear

SpecMem == InitMem /\ [][NextMem]_vars

---------------------------------------------------------------------------
(* The CPU and the stand-alone Memory side by side: a behaviour either      *)
(* drives the CPU (whose ram and gp_registers are Memory objects) or drives *)
(* a Memory of any size through its methods.                                *)

NextAll ==
  \/ (last.op = "__init__" /\ mem.size = 0 /\ Next)
  \/ (phase = "new" /\ NextMem)

SpecAll == InitMem /\ [][NextAll]_vars

---------------------------------------------------------------------------
(* Vocabulary of the properties.  A state with cycles > 0 is the state     *)
(* right after a pass of the loop, and prev is the machine as that pass    *)
(* found it.                                                               *)

AfterCycle == cycles > 0

\* the pass fetched its opcode (PC was a valid address)
Fetched == AfterCycle /\ prev.PC \in 0..(MAX_MEM - 1)

\* the opcode the pass fetched
FetchedOp == Cell(prev.ram, prev.PC)

\* the k-th operand byte of the instruction, as the pass found it
HasOperand(k) == prev.PC + k \in 0..(MAX_MEM - 1)

Operand(k) == Cell(prev.ram, prev.PC + k)

IsRegister(r) == r \in 0..(NUM_REGISTERS - 1)

\* the opcodes whose handler takes one register operand from memory
OneRegisterOps == {OP_LDI, OP_PRN, OP_PUSH, OP_POP, OP_JMP, OP_JEQ, OP_JNE}

\* the opcodes whose handler takes two register operands from the run loop
TwoRegisterOps == {OP_MUL, OP_CMP}

\* the pass fetched a recognised instruction one of whose register operands
\* is no register number
NamesBadRegister ==
  /\ Fetched
  /\ \/ FetchedOp \in OneRegisterOps /\ HasOperand(1) /\ ~IsRegister(Operand(1))
     \/ /\ FetchedOp \in TwoRegisterOps /\ HasOperand(2)
        /\ (~IsRegister(Operand(1)) \/ ~IsRegister(Operand(2)))

\* addresses outside a Memory, on both sides
OutsideAddresses(m) == {-2, -1, m.size, m.size + 1}

\* every access outside m is refused with OutOfBounds and changes nothing
RefusesOutside(m) ==
  \A address \in OutsideAddresses(m) :
    /\ read_byte(m, address).err = OutOfBounds
    /\ \A data \in DataSamples :
         write_byte(m, address, data) = [err |-> OutOfBounds, mem |-> m]

Flag(fl, mask) == BitAnd(fl, mask) = mask

DiagnosticLines == {"Unknown instruction", "Unknown ALU instruction"}

---------------------------------------------------------------------------
(* C1 *)

\* C1: whenever the byte fetched at PC (any PC in 0..255) is not a key of
\* the dispatch table, the pass prints a diagnostic and run() ends with
\* RUNNING clear and no exception, with or without the ALU bit in the byte.
C1_UnmappedOpcodeHaltsGracefully ==
  (Fetched /\ FetchedOp \notin DOMAIN dispatch_table) =>
    /\ err = NoError
    /\ phase = "halted"
    /\ ~IsRunning(FL)
    /\ Len(out) = Len(prev.out) + 1
    /\ out[Len(out)][1] \in DiagnosticLines

---------------------------------------------------------------------------
(* C2 *)

\* LDI R0,8; LDI R1,9; MUL R0,R1; PRN R0; HLT
MulExample == <<OP_LDI, 0, 8, OP_LDI, 1, 9, OP_MUL, 0, 1, OP_PRN, 0, OP_HLT>>

MulExampleLoaded == ram = load(Memory(MAX_MEM), MulExample).mem

\* C2: the first run of a fresh machine loaded with MulExample takes five
\* passes, prints exactly the one value 72 (in its fourth pass) and returns
\* with RUNNING clear and no exception.
C2_MulExamplePrints72 ==
  (MulExampleLoaded /\ runs = 1) =>
    /\ err = NoError
    /\ phase = "running" =>
         (cycles < 5 /\ IsRunning(FL)
            /\ out = IF cycles < 4 THEN << >> ELSE << <<"value", 72>> >>)
    /\ phase # "running" =>
         (phase = "halted" /\ cycles = 5 /\ ~IsRunning(FL)
            /\ out = << <<"value", 72>> >>)

C2_Witness ==
  /\ MulExampleLoaded
  /\ runs = 1
  /\ phase = "halted"
  /\ out = << <<"value", 72>> >>

---------------------------------------------------------------------------
(* C3 *)

\* C3: after a CMP a,b that completes, EQUAL is set iff regA = regB, LESS
\* iff regA < regB, GREATER iff regA > regB (so exactly one of the three is
\* set, whatever the flags were before), and RUNNING is as it was.
C3_CmpRecomputesFlags ==
  (AfterCycle /\ err = NoError /\ IR = OP_CMP) =>
    LET regA == Cell(prev.reg, Operand(1))
        regB == Cell(prev.reg, Operand(2))
    IN  /\ Flag(FL, FLAG_EQUAL) <=> (regA = regB)
        /\ Flag(FL, FLAG_LESS) <=> (regA < regB)
        /\ Flag(FL, FLAG_GREATER) <=> (regA > regB)
        /\ Cardinality({m \in {FLAG_EQUAL, FLAG_LESS, FLAG_GREATER} : Flag(FL, m)}) = 1
        /\ IsRunning(FL) <=> IsRunning(prev.FL)

\* a CMP that found LESS set from an earlier CMP and left GREATER only
C3_Witness ==
  /\ AfterCycle /\ err = NoError /\ IR = OP_CMP
  /\ Flag(prev.FL, FLAG_LESS)
  /\ Flag(FL, FLAG_GREATER) /\ ~Flag(FL, FLAG_LESS) /\ ~Flag(FL, FLAG_EQUAL)

---------------------------------------------------------------------------
(* C4 *)

\* C4: a completed JEQ r leaves PC = value of register r when EQUAL was
\* set and PC = old PC + 2 when it was clear; JNE r the same with the flag
\* sense inverted; the loop adds nothing more to PC, and registers, memory
\* and flags are unchanged.
C4_ConditionalJumps ==
  (AfterCycle /\ err = NoError /\ IR \in {OP_JEQ, OP_JNE}) =>
    LET taken == IF IR = OP_JEQ THEN Flag(prev.FL, FLAG_EQUAL)
                 ELSE ~Flag(prev.FL, FLAG_EQUAL)
    IN  /\ PC = IF taken THEN Cell(prev.reg, Operand(1)) ELSE prev.PC + 2
        /\ reg = prev.reg
        /\ ram = prev.ram
        /\ FL = prev.FL

\* a JEQ that jumped, a JNE that fell through
C4_Witness ==
  /\ AfterCycle /\ err = NoError
  /\ \/ IR = OP_JEQ /\ Flag(prev.FL, FLAG_EQUAL) /\ PC = 255
     \/ IR = OP_JNE /\ Flag(prev.FL, FLAG_EQUAL) /\ PC = prev.PC + 2

---------------------------------------------------------------------------
(* C5 *)

\* C5: with PUSH Ra at PC and POP Rb right after it, a, b in 0..6, SP = s
\* in 1..255 and the stack slot s - 1 outside the four instruction bytes,
\* the pass after the PUSH executes the POP without error and leaves
\* Rb = the value Ra held before the PUSH and SP = s again.
C5_PushPopRoundTrip ==
  [][ ( /\ AfterCycle /\ err = NoError /\ IR = OP_PUSH
        /\ cycles' = cycles + 1
        /\ HasOperand(3)
        /\ Operand(2) = OP_POP
        /\ Operand(1) \in 0..6
        /\ Operand(3) \in 0..6
        /\ Cell(prev.reg, SP) \in 1..255
        /\ Cell(prev.reg, SP) - 1 \notin prev.PC..(prev.PC + 3) )
      =>
      ( /\ err' = NoError
        /\ IR' = OP_POP
        /\ Cell(reg', Operand(3)) = Cell(prev.reg, Operand(1))
        /\ Cell(reg', SP) = Cell(prev.reg, SP) ) ]_vars

\* LDI R0,42; PUSH R0; POP R1 from reset: the pass that ran the POP found
\* the PUSH just executed, and left R1 = 42 and SP = 0xF4
C5_Witness ==
  /\ AfterCycle /\ err = NoError /\ IR = OP_POP
  /\ prev.IR = OP_PUSH
  /\ prev.PC >= 2 /\ Cell(prev.ram, prev.PC - 2) = OP_PUSH
  /\ Cell(prev.ram, prev.PC - 1) = 0 /\ Operand(1) = 1
  /\ Cell(reg, 0) = 42 /\ Cell(reg, 1) = 42
  /\ Cell(prev.reg, SP) = SP_RESET - 1
  /\ Cell(reg, SP) = SP_RESET

---------------------------------------------------------------------------
(* C6 *)

\* C6: a MUL a,b on registers a, b in 0..7 whose product exceeds 255 raises
\* InvalidByteValue out of run() and leaves every register as it was; one
\* whose product is at most 255 leaves regA = the product exactly and the
\* other registers as they were.
C6_MulOverflowIsAnError ==
  (Fetched /\ FetchedOp = OP_MUL /\ HasOperand(2)
     /\ IsRegister(Operand(1)) /\ IsRegister(Operand(2))) =>
    LET product == Cell(prev.reg, Operand(1)) * Cell(prev.reg, Operand(2))
    IN  IF product > 255
          THEN err = InvalidByteValue /\ phase = "failed" /\ reg = prev.reg
          ELSE err = NoError
               /\ reg = [prev.reg EXCEPT !.internal_memory[Operand(1)] = product]

\* 16 * 16 = 256
C6_Witness ==
  /\ Fetched /\ FetchedOp = OP_MUL /\ HasOperand(2)
  /\ IsRegister(Operand(1)) /\ IsRegister(Operand(2))
  /\ Cell(prev.reg, Operand(1)) * Cell(prev.reg, Operand(2)) = 256
  /\ err = InvalidByteValue

---------------------------------------------------------------------------
(* C7 *)

\* C7 as stated: a PUSH executed with SP = 0 and a POP executed with
\* SP = 255 fail with OutOfBounds and with no other error kind.
C7_StackPointerLeavesMemoryOutOfBounds ==
  /\ (Fetched /\ FetchedOp = OP_PUSH /\ Cell(prev.reg, SP) = 0) =>
       err = OutOfBounds
  /\ (Fetched /\ FetchedOp = OP_POP /\ Cell(prev.reg, SP) = 255) =>
       err = OutOfBounds

\* C7 amended: SP lives in register 7, whose writes are range-checked, so
\* a PUSH executed with SP = 0 fails with InvalidByteValue before it reads
\* or writes anything, and a POP executed with SP = 255 whose operand byte
\* is readable and names a register in 0..6 fails with InvalidByteValue
\* when it increments SP; neither fails with OutOfBounds.
C7_StackPointerLeavesByteRange ==
  /\ (Fetched /\ FetchedOp = OP_PUSH /\ Cell(prev.reg, SP) = 0) =>
       (err = InvalidByteValue /\ phase = "failed"
          /\ reg = prev.reg /\ ram = prev.ram)
  /\ (Fetched /\ FetchedOp = OP_POP /\ Cell(prev.reg, SP) = 255
        /\ HasOperand(1) /\ Operand(1) \in 0..6) =>
       (err = InvalidByteValue /\ phase = "failed")

C7_Witness ==
  /\ Fetched /\ FetchedOp = OP_PUSH /\ Cell(prev.reg, SP) = 0
  /\ err = InvalidByteValue

\* the POP half of the amended claim happens too
C7_PopCase ==
  /\ Fetched /\ FetchedOp = OP_POP /\ Cell(prev.reg, SP) = 255
  /\ HasOperand(1) /\ Operand(1) \in 0..6
  /\ err = InvalidByteValue

---------------------------------------------------------------------------
(* C8 *)

\* C8: RUNNING goes from set to clear only in a pass of the loop whose
\* fetched opcode is HLT or is no key of the dispatch table, and entering
\* run() leaves RUNNING set whatever it was.
C8_OnlyHaltClearsRunning ==
  [][ /\ (IsRunning(FL) /\ ~IsRunning(FL')) =>
           ( /\ phase = "running" /\ cycles' = cycles + 1
             /\ PC \in 0..(MAX_MEM - 1)
             /\ IR' = Cell(ram, PC)
             /\ (IR' = OP_HLT \/ IR' \notin DOMAIN dispatch_table) )
      /\ (phase # "running" /\ phase' = "running") => IsRunning(FL') ]_vars

\* a pass that executed an instruction other than HLT with operands, and
\* another pass later cleared RUNNING by HLT
C8_Witness ==
  /\ AfterCycle /\ err = NoError /\ IR = OP_HLT
  /\ IsRunning(prev.FL) /\ ~IsRunning(FL)
  /\ prev.IR \in {OP_POP, OP_PRN}

---------------------------------------------------------------------------
(* C9 *)

\* C9: on a Memory of any size n, a write_byte(a, v) with 0 <= a < n and
\* v in 0..255 succeeds, and a read_byte(a) that follows it returns v.
C9_WriteThenRead ==
  [][ /\ (last'.op = "write_byte" /\ last'.address \in 0..(mem.size - 1)
            /\ last'.data \in 0..255) => last'.err = NoError
      /\ (last.op = "write_byte" /\ last.err = NoError
            /\ last'.op = "read_byte" /\ last'.address = last.address) =>
           (last'.err = NoError /\ last'.val = last.data) ]_vars

C9_Witness ==
  /\ last.op = "read_byte" /\ last.err = NoError
  /\ last.address = mem.size - 1 /\ last.val = 255

---------------------------------------------------------------------------
(* C10 *)

\* C10: a write_byte to a valid address with an integer outside 0..255
\* fails with InvalidByteValue and leaves every cell unchanged.
C10_FailedWriteChangesNothing ==
  [][ (last'.op = "write_byte" /\ last'.address \in 0..(mem.size - 1)
         /\ last'.data \notin 0..255) =>
        (last'.err = InvalidByteValue /\ mem' = mem) ]_vars

\* a refused write of 256 to a cell that holds 255
C10_Witness ==
  /\ last.op = "write_byte" /\ last.err = InvalidByteValue
  /\ last.data = 256
  /\ last.address \in 0..(mem.size - 1)
  /\ Cell(mem, last.address) = 255

---------------------------------------------------------------------------
(* C11 *)

\* C11 as stated: every read_byte and write_byte outside a Memory fails with
\* OutOfBounds whatever the data and changes nothing, and every pass whose
\* instruction names a register number >= 8 fails with OutOfBounds.
C11_BadRegisterAlwaysOutOfBounds ==
  /\ RefusesOutside(mem) /\ RefusesOutside(ram) /\ RefusesOutside(reg)
  /\ NamesBadRegister => err = OutOfBounds

\* C11: every read_byte and write_byte outside a Memory (the stand-alone
\* one, ram, the register file) fails with OutOfBounds whatever the data
\* and changes nothing; a pass whose instruction names a register number
\* >= 8 fails with OutOfBounds when the handler reaches the register
\* access: always for LDI, PRN, POP, JMP, MUL and CMP, for JEQ and JNE only
\* when the jump is taken (otherwise the pass succeeds and PC moves by 2),
\* and for PUSH only when SP >= 1 (with SP = 0 the decrement fails first
\* with InvalidByteValue).  The refused register access changes no register.
C11_OutOfBoundsAccess ==
  /\ RefusesOutside(mem) /\ RefusesOutside(ram) /\ RefusesOutside(reg)
  /\ (last.op \in {"read_byte", "write_byte"}
        /\ last.address \notin 0..(mem.size - 1)) => last.err = OutOfBounds
  /\ NamesBadRegister =>
       LET taken == IF FetchedOp = OP_JEQ THEN Flag(prev.FL, FLAG_EQUAL)
                    ELSE IF FetchedOp = OP_JNE THEN ~Flag(prev.FL, FLAG_EQUAL)
                    ELSE TRUE
           sp == Cell(prev.reg, SP)
       IN  /\ ram = prev.ram
           /\ IF ~taken
                THEN err = NoError /\ PC = prev.PC + 2 /\ reg = prev.reg
              ELSE IF FetchedOp = OP_PUSH /\ sp = 0
                THEN err = InvalidByteValue /\ reg = prev.reg
              ELSE IF FetchedOp = OP_PUSH
                THEN /\ err = OutOfBounds
                     /\ reg = [prev.reg EXCEPT !.internal_memory[SP] = sp - 1]
              ELSE err = OutOfBounds /\ reg = prev.reg

\* a write of a non-byte just past the end of a Memory that holds a stored
\* byte was refused with OutOfBounds
C11_Witness ==
  /\ last.op = "write_byte" /\ last.address = mem.size /\ last.data = 256
  /\ last.err = OutOfBounds
  /\ mem.size > 0 /\ Cell(mem, 0) = 255

\* a PRN of register 8 failed with OutOfBounds
C11_RegisterWitness ==
  /\ NamesBadRegister /\ FetchedOp = OP_PRN /\ Operand(1) = 8
  /\ err = OutOfBounds

\* a JEQ naming register 8 that was not taken
C11_NotTakenCase ==
  /\ NamesBadRegister /\ FetchedOp = OP_JEQ /\ ~Flag(prev.FL, FLAG_EQUAL)
  /\ err = NoError

---------------------------------------------------------------------------
(* C12 *)

\* C12: clear() never fails, and right after it read_byte(a) returns 0 for
\* every valid address a, whatever was written before; a read_byte of a
\* valid address that follows the clear() returns 0.
C12_ClearZeroesEveryCell ==
  [][ /\ last'.op = "clear" =>
           /\ last'.err = NoError
           /\ \A address \in 0..(mem'.size - 1) :
                read_byte(mem', address) = [err |-> NoError, val |-> 0]
      /\ (last.op = "clear" /\ last'.op = "read_byte"
            /\ last'.address \in 0..(mem.size - 1)) =>
           (last'.err = NoError /\ last'.val = 0) ]_vars

\* the largest Memory right after a clear()
C12_Witness ==
  /\ last.op = "clear" /\ last.err = NoError /\ mem.size = MaxSize
  /\ \A address \in 0..(mem.size - 1) : Cell(mem, address) = 0

---------------------------------------------------------------------------
(* C13 *)

\* the operand count the loop decodes from the fetched opcode
FetchedNumOps == BitAnd(FetchedOp, 192) \div 64

\* bit 4 of the fetched opcode
FetchedSetsPC == BitAnd(FetchedOp, 16) # 0

\* the jump of the pass is taken: JMP always, JEQ and JNE by the EQUAL flag
JumpTaken ==
  \/ FetchedOp = OP_JMP
  \/ FetchedOp = OP_JEQ /\ Flag(prev.FL, FLAG_EQUAL)
  \/ FetchedOp = OP_JNE /\ ~Flag(prev.FL, FLAG_EQUAL)

\* C13: after a pass that raised nothing, if bit 4 of the fetched opcode is
\* clear then PC is the PC before plus 1 plus the operand count (HLT and
\* unmapped opcodes included); if bit 4 is set the loop adds nothing: PC is
\* the register value for a taken jump, PC before plus 2 for a JEQ/JNE not
\* taken, and PC before for an unmapped opcode, which no handler touches.
C13_AutomaticAdvance ==
  (Fetched /\ err = NoError) =>
    IF ~FetchedSetsPC THEN PC = prev.PC + 1 + FetchedNumOps
    ELSE IF JumpTaken THEN PC = Cell(prev.reg, Operand(1))
    ELSE IF FetchedOp \in {OP_JEQ, OP_JNE} THEN PC = prev.PC + 2
    ELSE PC = prev.PC

\* a JMP pass ended at its target, which is not the address after the JMP
C13_Witness ==
  /\ Fetched /\ err = NoError /\ FetchedOp = OP_JMP
  /\ PC = Cell(prev.reg, Operand(1)) /\ PC # prev.PC + 2

\* an unmapped opcode with three operand bytes moved PC by 4 as it halted
C13_UnmappedCase ==
  /\ Fetched /\ err = NoError /\ FetchedOp = 192
  /\ PC = prev.PC + 4 /\ ~IsRunning(FL)

\* an unmapped opcode with bit 4 set halted with PC where it was
C13_UnmappedSetsPCCase ==
  /\ Fetched /\ err = NoError /\ FetchedSetsPC
  /\ FetchedOp \notin DOMAIN dispatch_table /\ PC = prev.PC

---------------------------------------------------------------------------
(* C14 *)

\* C14: FL changes only on entering run(), which sets RUNNING, and in a
\* pass of the loop whose fetched opcode is CMP, HLT or no key of the
\* dispatch table; a pass that fetches LDI, PRN, PUSH, POP, JMP, JEQ, JNE
\* or MUL leaves FL as it was, whether the pass succeeds or raises.
C14_OnlyCmpHltRunChangeFlags ==
  [][ /\ FL' # FL =>
           \/ /\ phase # "running" /\ phase' = "running"
              /\ FL' = BitOr(FL, FLAG_RUNNING)
           \/ /\ phase = "running" /\ cycles' = cycles + 1
              /\ PC \in 0..(MAX_MEM - 1)
              /\ \/ Cell(ram, PC) \in {OP_CMP, OP_HLT}
                 \/ Cell(ram, PC) \notin DOMAIN dispatch_table
      /\ (phase = "running" /\ cycles' = cycles + 1
            /\ PC \in 0..(MAX_MEM - 1)
            /\ Cell(ram, PC) \in (OneRegisterOps \cup {OP_MUL})) => FL' = FL ]_vars

\* a JEQ taken on a set EQUAL flag left the flag set
C14_Witness ==
  /\ Fetched /\ FetchedOp = OP_JEQ /\ Flag(prev.FL, FLAG_EQUAL)
  /\ err = NoError /\ PC # prev.PC + 2
  /\ FL = prev.FL

\* a MUL that raised left FL as it was
C14_FailedCase ==
  /\ Fetched /\ FetchedOp = OP_MUL /\ err = InvalidByteValue
  /\ FL = prev.FL

---------------------------------------------------------------------------
(* C15 *)

\* the fetched opcode is one of the ten keys of the dispatch table
Recognised == Fetched /\ FetchedOp \in DOMAIN dispatch_table

\* the handler of the pass gets as far as reading its operands: HLT has
\* none, a PUSH at SP = 0 raises before, a JEQ/JNE not taken skips its own
ReachesOperands ==
  /\ FetchedOp # OP_HLT
  /\ ~(FetchedOp = OP_PUSH /\ Cell(prev.reg, SP) = 0)
  /\ FetchedOp \in {OP_JEQ, OP_JNE} => JumpTaken

\* every register operand of the instruction is a register number
RegisterOperandsValid ==
  /\ FetchedOp \in OneRegisterOps => IsRegister(Operand(1))
  /\ FetchedOp \in TwoRegisterOps => IsRegister(Operand(1)) /\ IsRegister(Operand(2))

\* the only TypeErrors a recognised instruction raises are range errors of
\* a stored value: a MUL product above 255, SP leaving 0..255 (POP adds 1
\* to SP after it has written the popped value, which may be SP itself)
RangeErrorExpected ==
  \/ /\ FetchedOp = OP_MUL /\ HasOperand(2) /\ RegisterOperandsValid
     /\ Cell(prev.reg, Operand(1)) * Cell(prev.reg, Operand(2)) > 255
  \/ FetchedOp = OP_PUSH /\ Cell(prev.reg, SP) = 0
  \/ /\ FetchedOp = OP_POP /\ HasOperand(1) /\ RegisterOperandsValid
     /\ 255 = IF Operand(1) = SP THEN Cell(prev.ram, Cell(prev.reg, SP))
              ELSE Cell(prev.reg, SP)

\* C15: for each of the ten opcodes the bits decoded by the loop equal the
\* shape of the handler: bits 7-6 the number of operand bytes it reads, bit
\* 5 whether it is called with two register numbers, bit 4 whether it
\* assigns PC.  In a pass that fetches one of them the handler is never
\* called with the wrong number of arguments (the only TypeErrors are range
\* errors of stored values); the instruction reads exactly its operand
\* bytes (it raises OutOfBounds when the last of them lies past address 255
\* and the handler reaches its reads, and raises no OutOfBounds when they
\* all lie in memory and name registers); and after a pass without error PC
\* is PC + 1 + operands unless the handler assigns PC.
C15_DecodedBitsMatchHandlers ==
  /\ \A op \in DOMAIN dispatch_table :
       /\ BitAnd(op, 192) \div 64 = handler_shape[op].operands
       /\ (BitAnd(op, 32) # 0) = handler_shape[op].two_registers
       /\ (BitAnd(op, 16) # 0) = handler_shape[op].assigns_PC
  /\ Recognised =>
       LET shape == handler_shape[FetchedOp] IN
       /\ err = InvalidByteValue => RangeErrorExpected
       /\ (ReachesOperands /\ ~HasOperand(shape.operands)) => err = OutOfBounds
       /\ (HasOperand(shape.operands) /\ RegisterOperandsValid) => err # OutOfBounds
       /\ (err = NoError /\ ~shape.assigns_PC) => PC = prev.PC + 1 + shape.operands
       /\ (err = NoError /\ shape.assigns_PC) =>
            PC = IF JumpTaken THEN Cell(prev.reg, Operand(1)) ELSE prev.PC + 2

\* a CMP whose second operand is the last byte of memory ran without error
C15_Witness ==
  /\ Recognised /\ FetchedOp = OP_CMP /\ prev.PC = MAX_MEM - 3
  /\ err = NoError /\ PC = MAX_MEM

\* an LDI whose second operand lies past the end of memory
C15_TruncatedCase ==
  /\ Recognised /\ FetchedOp = OP_LDI /\ prev.PC = MAX_MEM - 2
  /\ err = OutOfBounds

---------------------------------------------------------------------------
(* C16 *)

\* the pass fetched a PUSH whose operand byte is no register number
PushOfBadRegister ==
  Fetched /\ FetchedOp = OP_PUSH /\ HasOperand(1) /\ ~IsRegister(Operand(1))

\* C16 as stated: every PUSH whose register operand is >= 8 fails with
\* OutOfBounds and leaves SP decremented by 1, and every POP that fails
\* while incrementing SP has written the popped value into its register.
C16_PushOfBadRegisterDecrementsSP ==
  /\ PushOfBadRegister =>
       (err = OutOfBounds /\ Cell(reg, SP) = Cell(prev.reg, SP) - 1)
  /\ (Fetched /\ FetchedOp = OP_POP /\ err = InvalidByteValue) =>
       Cell(reg, Operand(1)) = Cell(prev.ram, Cell(prev.reg, SP))

\* C16: a pass that raises keeps what it had done before: IR holds the
\* fetched opcode, and PC, FL, ram and the output are as before the pass.
\* A PUSH executed with SP >= 1 that fails (its register operand is >= 8,
\* or its operand byte lies past the end of memory) fails with OutOfBounds
\* and leaves SP decremented by 1; a PUSH executed with SP = 0 fails with
\* InvalidByteValue on the decrement itself and changes no register.  A POP
\* that fails while incrementing SP has already written the popped value
\* into its destination register.  Every other failing instruction leaves
\* the registers as they were.
C16_NoRollback ==
  (Fetched /\ err # NoError) =>
    LET sp == Cell(prev.reg, SP) IN
    /\ IR = FetchedOp /\ PC = prev.PC /\ FL = prev.FL
    /\ ram = prev.ram /\ out = prev.out
    /\ reg = IF FetchedOp = OP_PUSH /\ sp >= 1
               THEN [prev.reg EXCEPT !.internal_memory[SP] = sp - 1]
             ELSE IF FetchedOp = OP_POP /\ err = InvalidByteValue
               THEN [prev.reg EXCEPT
                       !.internal_memory[Operand(1)] = Cell(prev.ram, sp)]
             ELSE prev.reg
    /\ (FetchedOp = OP_PUSH /\ sp >= 1) => err = OutOfBounds
    /\ (FetchedOp = OP_PUSH /\ sp = 0) => err = InvalidByteValue

\* a PUSH of register 8 failed with OutOfBounds and SP is one lower
C16_Witness ==
  /\ PushOfBadRegister /\ err = OutOfBounds
  /\ Cell(prev.reg, SP) = SP_RESET /\ Cell(reg, SP) = SP_RESET - 1

\* a POP into register 0 failed on the increment of SP = 255 and register 0
\* holds the popped 42
C16_PopCase ==
  /\ Fetched /\ FetchedOp = OP_POP /\ err = InvalidByteValue
  /\ Operand(1) = 0 /\ Cell(prev.reg, 0) = 0 /\ Cell(reg, 0) = 42
  /\ Cell(reg, SP) = 255

\* a PUSH of register 8 at SP = 0
C16_PushAtZeroCase ==
  /\ PushOfBadRegister /\ Cell(prev.reg, SP) = 0
  /\ err = InvalidByteValue /\ reg = prev.reg

---------------------------------------------------------------------------
(* C17 *)

\* every cell of the Memory m exists and holds a byte
HoldsBytes(m) ==
  /\ DOMAIN m.internal_memory = 0..(m.size - 1)
  /\ \A address \in 0..(m.size - 1) : Cell(m, address) \in 0..255

\* C17: in every state, after passes that succeeded and passes that raised,
\* every cell of ram and every register (SP included) holds an integer in
\* 0..255, and so does every cell of a Memory driven on its own; a
\* read_byte or write_byte that succeeded had its address in 0..size-1, and
\* a pass that succeeded read its operand bytes inside memory, named only
\* registers 0..7 and used a stack address in 0..255.
C17_CellsAreBytes ==
  /\ HoldsBytes(ram) /\ ram.size = MAX_MEM
  /\ HoldsBytes(reg) /\ reg.size = NUM_REGISTERS
  /\ HoldsBytes(mem)
  /\ (last.op \in {"read_byte", "write_byte"} /\ last.err = NoError) =>
       last.address \in 0..(mem.size - 1)
  /\ (Recognised /\ err = NoError /\ ReachesOperands) =>
       /\ HasOperand(FetchedNumOps)
       /\ RegisterOperandsValid
       /\ FetchedOp = OP_PUSH => Cell(reg, SP) \in 0..(MAX_MEM - 1)
       /\ FetchedOp = OP_POP => Cell(reg, SP) - 1 \in 0..(MAX_MEM - 1)

\* a MUL of 255 by 255 was refused and the registers still hold 255
C17_Witness ==
  /\ Fetched /\ FetchedOp = OP_MUL /\ err = InvalidByteValue
  /\ Cell(reg, Operand(1)) = 255 /\ Cell(reg, Operand(2)) = 255

\* a PUSH moved SP to 0 and stored 255 in cell 0
C17_StackCase ==
  /\ Fetched /\ FetchedOp = OP_PUSH /\ err = NoError
  /\ Cell(reg, SP) = 0

---------------------------------------------------------------------------
(* C18 *)

\* C18: a pass that fetches an opcode with bit 4 clear and raises nothing
\* leaves PC strictly greater than it found it (a pass that raises ends the
\* run); so while no pass of a run() call has fetched an opcode with bit 4
\* set, PC is at least the number of passes made, and the call makes at
\* most 256 passes before it halts or raises.  The only opcodes with bit 4
\* set after which the loop goes on are JMP, JEQ and JNE.
C18_StraightLineRunsTerminate ==
  /\ (Fetched /\ ~FetchedSetsPC /\ err = NoError) => PC > prev.PC
  /\ (AfterCycle /\ err # NoError) => phase = "failed"
  /\ (AfterCycle /\ ~jumped /\ err = NoError) => PC >= cycles
  /\ ~jumped => cycles <= MAX_MEM
  /\ (~jumped /\ phase = "running") => cycles < MAX_MEM
  /\ (Fetched /\ FetchedSetsPC /\ phase = "running") =>
       FetchedOp \in {OP_JMP, OP_JEQ, OP_JNE}

\* a run of 128 PRN instructions and no jump ended at the 129th pass, whose
\* fetch at address 256 raised
C18_Witness ==
  /\ ~jumped /\ cycles = 129 /\ phase = "failed" /\ err = OutOfBounds
  /\ PC = MAX_MEM /\ Len(out) = 128

\* a run that jumps is still running after more than 256 passes
C18_LoopCase ==
  /\ jumped /\ cycles > MAX_MEM /\ phase = "running"

---------------------------------------------------------------------------
(* C19 *)

\* the pass fetched an instruction (or an unmapped ALU opcode, whose two
\* operands the loop reads itself) that reads an operand byte lying past
\* the end of memory
ReadsPastEnd ==
  /\ Fetched
  /\ \/ Recognised /\ ReachesOperands /\ ~HasOperand(FetchedNumOps)
     \/ BitAnd(FetchedOp, 32) # 0 /\ ~HasOperand(2)

\* C19 as stated: PC is always in 0..258; a pass that finds PC >= 256 fails
\* on its fetch with OutOfBounds; an instruction with an operand byte past
\* address 255 fails with OutOfBounds.
C19_PCAtMost258 ==
  /\ PC \in 0..258
  /\ (AfterCycle /\ prev.PC >= MAX_MEM) => err = OutOfBounds
  /\ ReadsPastEnd => err = OutOfBounds

\* C19: PC is never reduced modulo 256.  PC is always in 0..259 (259 is
\* left by an unmapped opcode with operand count 3 at address 255, which
\* halts), and at most 257 after a pass that leaves RUNNING set; a pass
\* that finds PC >= 256 (after an automatic advance or a JEQ/JNE not
\* taken) fails on its fetch with OutOfBounds, PC unchanged, instead of
\* going on at address 0; an instruction that reads an operand byte lying
\* past address 255 fails with OutOfBounds.
C19_PCNeverWraps ==
  /\ PC \in 0..(MAX_MEM + 3)
  /\ (AfterCycle /\ phase = "running") => PC <= MAX_MEM + 1
  /\ (AfterCycle /\ prev.PC >= MAX_MEM) =>
       (err = OutOfBounds /\ phase = "failed" /\ PC = prev.PC /\ IR = prev.IR)
  /\ ReadsPastEnd => (err = OutOfBounds /\ PC = prev.PC)

\* a JEQ not taken at address 255 left PC = 257, and the pass after it
\* failed on its fetch
C19_Witness ==
  /\ AfterCycle /\ prev.PC = MAX_MEM + 1 /\ prev.IR = OP_JEQ
  /\ err = OutOfBounds /\ PC = MAX_MEM + 1

\* the unmapped opcode 0xC0 at address 255 halted with PC = 259
C19_HaltedPastEndCase ==
  /\ Fetched /\ prev.PC = MAX_MEM - 1 /\ FetchedOp = 192
  /\ err = NoError /\ phase = "halted" /\ PC = MAX_MEM + 3

\* an LDI at address 254, whose second operand lies past the end of memory
C19_OperandPastEndCase ==
  /\ ReadsPastEnd /\ FetchedOp = OP_LDI /\ prev.PC = MAX_MEM - 2

---------------------------------------------------------------------------
(* C20 *)

\* the three comparison bits of a flags word
Comparison(fl) == BitAnd(fl, FLAG_EQUAL + FLAG_LESS + FLAG_GREATER)

\* a flags word uses only the four defined bits, and at most one of EQUAL,
\* LESS and GREATER
WellFormedFlags(fl) ==
  /\ fl \in 0..255
  /\ BitAnd(fl, 255 - (FLAG_RUNNING + FLAG_LESS + FLAG_GREATER + FLAG_EQUAL)) = 0
  /\ Comparison(fl) \in {0, FLAG_EQUAL, FLAG_LESS, FLAG_GREATER}

\* C20: FL is 0 at construction; in every state, over any number of run()
\* calls, FL uses only the bits 0x87 and has at most one of EQUAL, LESS and
\* GREATER set; and the comparison bits change only in a pass that executes
\* a CMP without error, so all three are clear until the first CMP.
C20_FlagsWellFormed ==
  /\ FL = 0
  /\ [][ /\ WellFormedFlags(FL')
         /\ Comparison(FL') # Comparison(FL) =>
              /\ phase = "running" /\ cycles' = cycles + 1
              /\ PC \in 0..(MAX_MEM - 1) /\ Cell(ram, PC) = OP_CMP
              /\ err' = NoError ]_vars

\* in a second run() call a CMP replaced the GREATER left by the first
\* call by LESS
C20_Witness ==
  /\ runs = 2 /\ Fetched /\ FetchedOp = OP_CMP /\ err = NoError
  /\ prev.FL = FLAG_RUNNING + FLAG_GREATER
  /\ FL = FLAG_RUNNING + FLAG_LESS

\* a run halted with a comparison flag left set and RUNNING clear
C20_HaltedCase ==
  /\ phase = "halted" /\ FL \in {FLAG_EQUAL, FLAG_LESS, FLAG_GREATER}

====
